---- MODULE Spec2Model ----
(***************************************************************************)
(* A model of copernicus_helper: the command line tool that downloads      *)
(* ERA5 reanalysis files (one per year) and CMIP6 projection archives from *)
(* the Copernicus climate data store, skipping files that already exist.   *)
(*                                                                         *)
(* Modelled from src/src/copernicus_helper/copernicus.py (the final        *)
(* revision of the script).  get_country of the first revision,            *)
(* src/copernicus.py, is modelled as get_country_v1.                       *)
(*                                                                         *)
(* Coordinates are integers in tenths of a degree, so the default padding  *)
(* of 0.1 degree is 1.  An optional value (Python's None) is the empty     *)
(* sequence, a present value x is <<x>>.  A file name inside an archive is *)
(* the sequence of its characters.                                         *)
(***************************************************************************)
EXTENDS Integers, Sequences, FiniteSets, TLC

VARIABLES
    config,    \* the parsed command line (argparse Namespace), the same for every invocation
    geo,       \* the Natural Earth table behind country_subunits_by_iso_code
    files,     \* file system: canonical .nc path -> content ("absent" when no file)
    zipfile,   \* file system: the file at fname.with_suffix(".zip")
    cwd,       \* file system: member name -> content of the file extracted into the working directory
    folder,    \* file system: TRUE once the output folder has been created
    pc,        \* per invocation: position in main
    year,      \* per invocation: loop variable of the for statement
    area,      \* per invocation: value of the last get_country(...) argument
    tmpfile,   \* per invocation: the path returned by zipped.extract
    err,       \* per invocation: the exception that ended it ("" when none)
    calls,     \* history: per invocation, the client.retrieve(...).download(...) calls issued
    lookups,   \* history: per invocation, the number of get_country calls
    start,     \* history: per invocation, the file system when it started and the invocations
               \* that had ended without error by then
    probe      \* the result of a direct call of get_country (specification SpecBox)

vars == <<config, geo, files, zipfile, cwd, folder, pc, year, area, tmpfile, err,
          calls, lookups, start, probe>>

----------------------------------------------------------------------------
(* Bounds of the model *)

\* number of years the time range is drawn from
MaxYears == 3
\* largest number of members of a delivered archive
MaxMembers == 2
\* largest number of subunits of the country drawn in SpecBox
MaxUnits == 2
\* paddings are drawn from -1 .. MaxPadding
MaxPadding == 2

None == <<>>
Some(x) == <<x>>

Years == 2020 .. (2019 + MaxYears)
\* the invocations of the script: two, run one after the other (Spec) or at the
\* same time (SpecConcurrent)
Procs == {1, 2}

----------------------------------------------------------------------------
(* get_country *)

\* padding: float | None = 0.1, in tenths of a degree
DefaultPadding == 1

\* the whole globe, [north, west, south, east]
FullBox == <<900, -1800, -900, 1800>>

Raised(e) == [raised |-> TRUE, error |-> e, box |-> <<0, 0, 0, 0>>]
Returned(b) == [raised |-> FALSE, error |-> "", box |-> b]

\* countries.country_subunits_by_iso_code(code2): the subunits of the table with that code,
\* each with a name and a bbox (lon1, lat1, lon2, lat2), i.e. (west, south, east, north)
country_subunits_by_iso_code(code2) ==
    IF code2 \in DOMAIN geo THEN geo[code2] ELSE <<>>

\* a plausible slip: the subunit is not used to filter
RECURSIVE unit_boxes_unfiltered(_, _)
unit_boxes_unfiltered(units, subunit) ==
    IF units = <<>> THEN <<>>
    ELSE <<Head(units).bbox>> \o unit_boxes_unfiltered(Tail(units), subunit)

\* [unit.bbox for unit in units] and [unit.bbox for unit in units if unit.name == subunit]
RECURSIVE unit_boxes(_, _)
unit_boxes(units, subunit) ==
    IF units = <<>> THEN <<>>
    ELSE LET rest == unit_boxes(Tail(units), subunit)
         IN  IF subunit = None \/ Head(units).name = subunit[1]
             THEN <<Head(units).bbox>> \o rest
             ELSE rest

\* list(zip(*boxes)): one tuple per coordinate; no tuple at all when boxes is empty
transpose(boxes) ==
    IF boxes = <<>> THEN <<>>
    ELSE [i \in 1..4 |-> [k \in 1..Len(boxes) |-> boxes[k][i]]]

\* Python's min and max of a non-empty tuple
RECURSIVE min(_)
min(xs) ==
    IF Len(xs) = 1 THEN xs[1]
    ELSE LET m == min(Tail(xs)) IN IF xs[1] <= m THEN xs[1] ELSE m

RECURSIVE max(_)
max(xs) ==
    IF Len(xs) = 1 THEN xs[1]
    ELSE LET m == max(Tail(xs)) IN IF xs[1] >= m THEN xs[1] ELSE m

\* box = [min(boxes[0]), min(boxes[1]), max(boxes[2]), max(boxes[3])]
envelope(cols) == <<min(cols[1]), min(cols[2]), max(cols[3]), max(cols[4])>>

\* a plausible slip: the padding is subtracted on all four sides
pad_box_shrinking_east_north(box, padding) ==
    IF padding = None THEN box
    ELSE <<box[1] - padding[1], box[2] - padding[1], box[3] - padding[1], box[4] - padding[1]>>

\* if padding is not None: box = [box[0] - padding, box[1] - padding, box[2] + padding, box[3] + padding]
pad_box(box, padding) ==
    IF padding = None THEN box
    ELSE <<box[1] - padding[1], box[2] - padding[1], box[3] + padding[1], box[4] + padding[1]>>

\* return [box[-1]] + box[:-1]
rotate(box) == <<box[4]>> \o SubSeq(box, 1, 3)

\* the part of get_country after the "full" test; boxes[0] raises IndexError when no box is left
lookup_box(code2, subunit, padding) ==
    LET cols == transpose(unit_boxes(country_subunits_by_iso_code(code2), subunit))
    IN  IF cols = <<>> THEN Raised("IndexError")
        ELSE Returned(rotate(pad_box(envelope(cols), padding)))

get_country(code2, subunit, padding) ==
    IF code2 = "full" THEN Returned(FullBox)
    ELSE lookup_box(code2, subunit, padding)

\* get_country of the first revision: no "full" query
get_country_v1(code2, subunit, padding) ==
    lookup_box(code2, subunit, padding)

----------------------------------------------------------------------------
(* Paths and the file system *)

\* location / f"{arguments.dataset}_{year}.nc"
era5_fname(dataset, y) ==
    [prefix |-> dataset, model |-> "", years |-> <<y>>, suffix |-> "nc"]

\* location / f"{arguments.experiment}_{arguments.model}_{arguments.time_range}.nc"
projection_fname(experiment, model, y1, y2) ==
    [prefix |-> experiment, model |-> model, years |-> <<y1, y2>>, suffix |-> "nc"]

\* filename.with_suffix(".zip")
with_suffix(path, suffix) == [path EXCEPT !.suffix = suffix]

\* the canonical files an invocation with configuration cfg can look at
CanonicalPaths(cfg) ==
    {era5_fname(cfg.dataset[1], y) : y \in {z \in Years : cfg.dataset # None}}
    \cup {projection_fname(cfg.experiment[1], cfg.model, cfg.year1, cfg.year2) :
            x \in {z \in {0} : cfg.experiment # None}}

\* the canonical files main tests and produces: the one of the projection when an
\* experiment is given, else one per year of range(year1, year2 + 1)
Targets(cfg) ==
    IF cfg.experiment # None
    THEN {projection_fname(cfg.experiment[1], cfg.model, cfg.year1, cfg.year2)}
    ELSE IF cfg.dataset # None
    THEN {era5_fname(cfg.dataset[1], y) : y \in cfg.year1..cfg.year2}
    ELSE {}

\* a plausible slip: the test of the cache is inverted
is_file_inverted(path) == files[path] = "absent"

\* Path(filename).is_file()
is_file(path) == files[path] # "absent"

NoZip == [present |-> FALSE, valid |-> FALSE, members |-> <<>>]
Zip(members) == [present |-> TRUE, valid |-> TRUE, members |-> members]
BrokenZip == [present |-> TRUE, valid |-> FALSE, members |-> <<>>]

----------------------------------------------------------------------------
(* Archives *)

NameNc1 == <<"a", ".", "n", "c">>
NameNc2 == <<"b", ".", "n", "c">>
NameShort == <<"n", "c">>
MemberNames == {NameNc1, NameNc2, NameShort}
MemberData == {"m1", "m2"}
Members == [name : MemberNames, data : MemberData]

\* every archive of at most MaxMembers members, names possibly repeated
Archives == UNION {[1..n -> Members] : n \in 0..MaxMembers}

\* x[-3:]: the last three characters, the whole name when it is shorter
last3(x) == SubSeq(x, IF Len(x) > 3 THEN Len(x) - 2 ELSE 1, Len(x))

\* zipped.namelist(): the member names in archive order
namelist(members) == [i \in 1..Len(members) |-> members[i].name]

\* next((x for x in zipped.namelist() if x[-3:] == ".nc"), None)
first_nc(names) ==
    LET hits == {i \in 1..Len(names) : last3(names[i]) = <<".", "n", "c">>}
    IN  IF hits = {} THEN None
        ELSE Some(names[CHOOSE i \in hits : \A j \in hits : i <= j])

\* ZipFile.getinfo(name), which zipped.extract(member=name) uses: the archive keeps one
\* entry per name, the last one read from the directory of the archive
getinfo(members, name) ==
    LET hits == {i \in 1..Len(members) : members[i].name = name}
    IN  members[CHOOSE i \in hits : \A j \in hits : i >= j]

----------------------------------------------------------------------------
(* The command lines and the initial states *)

\* a sample of the Natural Earth table: code -> subunits, bbox = (west, south, east, north)
NaturalEarth ==
    ("IT" :> <<[name |-> "Italy", bbox |-> <<66, 358, 185, 471>>]>>)
    @@ ("ES" :> <<[name |-> "Spain", bbox |-> <<-93, 360, 33, 438>>],
                  [name |-> "Canary Islands", bbox |-> <<-181, 276, -134, 293>>]>>)

\* --country: "full", a code, or CODE:Subunit (split at ":" by main)
CountryQueries ==
    { [country |-> "full", subunit |-> None],
      [country |-> "IT", subunit |-> None],
      [country |-> "ES", subunit |-> Some("Spain")],
      [country |-> "ES", subunit |-> Some("Atlantis")],
      [country |-> "full", subunit |-> Some("Atlantis")] }

Configs ==
    [ country : {q.country : q \in CountryQueries},
      subunit : {q.subunit : q \in CountryQueries},
      dataset : {None, Some("single-levels")},
      experiment : {None, Some("historical")},
      model : {"access_cm2"},
      year1 : Years,
      year2 : Years ]

\* the files present before the first invocation were downloaded earlier ("old"); the
\* files the run does not look at are taken to be absent
InitialFiles(cfg) ==
    {f \in [CanonicalPaths(cfg) -> {"absent", "old"}] :
        \A path \in CanonicalPaths(cfg) \ Targets(cfg) : f[path] = "absent"}

NoProbe == [called |-> FALSE, padding |-> None,
            result |-> Raised(""), unpadded |-> Raised(""),
            result_v1 |-> Raised(""), unpadded_v1 |-> Raised("")]

InitInvocations ==
    /\ pc = [p \in Procs |-> "idle"]
    /\ year = [p \in Procs |-> 0]
    /\ area = [p \in Procs |-> <<0, 0, 0, 0>>]
    /\ tmpfile = [p \in Procs |-> None]
    /\ err = [p \in Procs |-> ""]
    /\ calls = [p \in Procs |-> <<>>]
    /\ lookups = [p \in Procs |-> 0]
    /\ start = [p \in Procs |-> [files |-> files, zipfile |-> zipfile, cwd |-> cwd, after |-> {}]]

Init ==
    /\ config \in Configs
    /\ [country |-> config.country, subunit |-> config.subunit] \in CountryQueries
    /\ geo = NaturalEarth
    /\ files \in InitialFiles(config)
    /\ zipfile = NoZip
    /\ cwd = [n \in MemberNames |-> "absent"]
    /\ folder = FALSE
    /\ probe = NoProbe
    /\ InitInvocations

----------------------------------------------------------------------------
(* main *)

Raise(p, e) ==
    /\ pc' = [pc EXCEPT ![p] = "error"]
    /\ err' = [err EXCEPT ![p] = e]

Goto(p, label) ==
    /\ pc' = [pc EXCEPT ![p] = label]
    /\ UNCHANGED err

\* if arguments.experiment is None and arguments.dataset is None: raise ValueError
arguments_missing(cfg) == cfg.experiment = None /\ cfg.dataset = None

\* the file main and the download functions are looking at
fname(p) ==
    IF config.experiment # None
    THEN projection_fname(config.experiment[1], config.model, config.year1, config.year2)
    ELSE era5_fname(config.dataset[1], year[p])

\* main up to the branch on the experiment: the check of the arguments, then
\* cache_location(...) and location.mkdir(parents=True, exist_ok=True)
main_arguments(p) ==
    /\ pc[p] = "idle"
    /\ start' = [start EXCEPT ![p] = [files |-> files, zipfile |-> zipfile, cwd |-> cwd,
                                   after |-> {q \in Procs : pc[q] = "done"}]]
    /\ IF arguments_missing(config)
       THEN /\ Raise(p, "ValueError")
            /\ UNCHANGED <<folder, year>>
       ELSE /\ folder' = TRUE
            /\ year' = [year EXCEPT ![p] = config.year1]
            /\ Goto(p, IF config.experiment # None THEN "projection" ELSE "for_year")
    /\ UNCHANGED <<config, geo, files, zipfile, cwd, area, tmpfile, calls, lookups, probe>>

\* for year in range(year1, year2 + 1): if fname.is_file(): continue
main_for_year(p) ==
    /\ pc[p] = "for_year"
    /\ IF year[p] > config.year2
       THEN Goto(p, "done") /\ UNCHANGED year
       ELSE IF is_file(fname(p))
            THEN Goto(p, "for_year") /\ year' = [year EXCEPT ![p] = year[p] + 1]
            ELSE Goto(p, "era5_area") /\ UNCHANGED year
    /\ UNCHANGED <<config, geo, files, zipfile, cwd, folder, area, tmpfile, calls,
                   lookups, start, probe>>

\* if not fname.is_file(): get_projections_from_copernicus(...)
main_projection(p) ==
    /\ pc[p] = "projection"
    /\ Goto(p, IF is_file(fname(p)) THEN "done" ELSE "projection_area")
    /\ UNCHANGED <<config, geo, files, zipfile, cwd, folder, year, area, tmpfile, calls,
                   lookups, start, probe>>

\* a plausible change: the box is resolved for the first download and kept for the others
main_get_country_once(p) ==
    /\ pc[p] \in {"era5_area", "projection_area"}
    /\ IF lookups[p] > 0
       THEN /\ UNCHANGED <<lookups, area>>
            /\ Goto(p, IF pc[p] = "era5_area" THEN "era5_gate" ELSE "projection_gate")
       ELSE /\ lookups' = [lookups EXCEPT ![p] = lookups[p] + 1]
            /\ LET r == get_country(config.country, config.subunit, Some(DefaultPadding))
               IN  IF r.raised
                   THEN Raise(p, r.error) /\ UNCHANGED area
                   ELSE /\ area' = [area EXCEPT ![p] = r.box]
                        /\ Goto(p, IF pc[p] = "era5_area" THEN "era5_gate" ELSE "projection_gate")
    /\ UNCHANGED <<config, geo, files, zipfile, cwd, folder, year, tmpfile, calls,
                   start, probe>>

\* area=get_country(country, subunit=subunit): the argument is evaluated when the
\* download function is about to be called
main_get_country(p) ==
    /\ pc[p] \in {"era5_area", "projection_area"}
    /\ lookups' = [lookups EXCEPT ![p] = lookups[p] + 1]
    /\ LET r == get_country(config.country, config.subunit, Some(DefaultPadding))
       IN  IF r.raised
           THEN Raise(p, r.error) /\ UNCHANGED area
           ELSE /\ area' = [area EXCEPT ![p] = r.box]
                /\ Goto(p, IF pc[p] = "era5_area" THEN "era5_gate" ELSE "projection_gate")
    /\ UNCHANGED <<config, geo, files, zipfile, cwd, folder, year, tmpfile, calls,
                   start, probe>>

----------------------------------------------------------------------------
(* get_data_from_copernicus *)

\* if Path(filename).is_file(): return
get_data_from_copernicus_check(p) ==
    /\ pc[p] = "era5_gate"
    /\ IF is_file(fname(p))
       THEN Goto(p, "for_year") /\ year' = [year EXCEPT ![p] = year[p] + 1]
       ELSE Goto(p, "era5_retrieve") /\ UNCHANGED year
    /\ UNCHANGED <<config, geo, files, zipfile, cwd, folder, area, tmpfile, calls,
                   lookups, start, probe>>

\* a plausible change: a failed download is tried a second time
get_data_from_copernicus_retrying(p) ==
    /\ pc[p] = "era5_retrieve"
    /\ calls' = [calls EXCEPT ![p] = Append(@,
                    [dataset |-> <<"reanalysis-era5-", config.dataset[1]>>,
                     years |-> <<year[p]>>, area |-> area[p],
                     target |-> fname(p), dest |-> fname(p)])]
    /\ \/ /\ files' = [files EXCEPT ![fname(p)] = "downloaded"]
          /\ year' = [year EXCEPT ![p] = year[p] + 1]
          /\ Goto(p, "for_year")
       \/ /\ files' \in {files, [files EXCEPT ![fname(p)] = "partial"]}
          /\ IF \E i \in 1..Len(calls[p]) : calls[p][i].target = fname(p)
             THEN Raise(p, "TransportFailure")
             ELSE UNCHANGED <<pc, err>>
          /\ UNCHANGED year
    /\ UNCHANGED <<config, geo, zipfile, cwd, folder, area, tmpfile, lookups, start, probe>>

\* client.retrieve(dataset, request).download(filename): the client writes the file, or
\* fails, and may then leave a partly written file behind
get_data_from_copernicus_retrieve(p) ==
    /\ pc[p] = "era5_retrieve"
    /\ calls' = [calls EXCEPT ![p] = Append(@,
                    [dataset |-> <<"reanalysis-era5-", config.dataset[1]>>,
                     years |-> <<year[p]>>, area |-> area[p],
                     target |-> fname(p), dest |-> fname(p)])]
    /\ \/ /\ files' = [files EXCEPT ![fname(p)] = "downloaded"]
          /\ year' = [year EXCEPT ![p] = year[p] + 1]
          /\ Goto(p, "for_year")
       \/ /\ files' \in {files, [files EXCEPT ![fname(p)] = "partial"]}
          /\ Raise(p, "TransportFailure")
          /\ UNCHANGED year
    /\ UNCHANGED <<config, geo, zipfile, cwd, folder, area, tmpfile, lookups, start, probe>>

----------------------------------------------------------------------------
(* get_projections_from_copernicus *)

\* if Path(filename).is_file(): return
get_projections_from_copernicus_check(p) ==
    /\ pc[p] = "projection_gate"
    /\ Goto(p, IF is_file(fname(p)) THEN "done" ELSE "projection_retrieve")
    /\ UNCHANGED <<config, geo, files, zipfile, cwd, folder, year, area, tmpfile, calls,
                   lookups, start, probe>>

\* the path handed to download(...): filename.with_suffix(".zip")
download_path(path) == with_suffix(path, "zip")

\* client.retrieve(dataset, request).download(filename.with_suffix(".zip")): the client
\* writes some archive of the catalogue, or fails, and may then leave a partly written
\* archive behind
get_projections_from_copernicus_retrieve(p, catalogue) ==
    /\ pc[p] = "projection_retrieve"
    /\ calls' = [calls EXCEPT ![p] = Append(@,
                    [dataset |-> <<"projections-cmip6", "">>,
                     years |-> [i \in 1..(config.year2 - config.year1 + 1) |-> config.year1 + i - 1],
                     area |-> area[p],
                     target |-> fname(p), dest |-> download_path(fname(p))])]
    /\ \/ /\ \E a \in catalogue : zipfile' = Zip(a)
          /\ Goto(p, "projection_unzip")
       \/ /\ zipfile' \in {zipfile, BrokenZip}
          /\ Raise(p, "TransportFailure")
    /\ UNCHANGED <<config, geo, files, cwd, folder, year, area, tmpfile, lookups, start, probe>>

\* a plausible slip: the first member with the name is extracted even when a later
\* member has the same name
extract_first(members, name) ==
    LET hits == {i \in 1..Len(members) : members[i].name = name}
    IN  members[CHOOSE i \in hits : \A j \in hits : i <= j].data

\* zipped.extract(member=ncfile): the data written into the working directory
extract(members, name) == getinfo(members, name).data

\* with ZipFile(filename.with_suffix(".zip"), "r") as zipped: ncfile = next(...);
\* if ncfile is not None: tmpfile = zipped.extract(member=ncfile)
get_projections_from_copernicus_unzip(p) ==
    /\ pc[p] = "projection_unzip"
    /\ IF ~zipfile.present
       THEN Raise(p, "FileNotFoundError") /\ UNCHANGED <<cwd, tmpfile>>
       ELSE IF ~zipfile.valid
       THEN Raise(p, "BadZipFile") /\ UNCHANGED <<cwd, tmpfile>>
       ELSE LET ncfile == first_nc(namelist(zipfile.members))
            IN  IF ncfile = None
                THEN Goto(p, "done") /\ UNCHANGED <<cwd, tmpfile>>
                ELSE /\ cwd' = [cwd EXCEPT ![ncfile[1]] = extract(zipfile.members, ncfile[1])]
                     /\ tmpfile' = [tmpfile EXCEPT ![p] = ncfile]
                     /\ Goto(p, "projection_replace")
    /\ UNCHANGED <<config, geo, files, zipfile, folder, year, area, calls, lookups,
                   start, probe>>

\* Path(tmpfile).replace(filename)
get_projections_from_copernicus_replace(p) ==
    /\ pc[p] = "projection_replace"
    /\ IF cwd[tmpfile[p][1]] = "absent"
       THEN Raise(p, "FileNotFoundError") /\ UNCHANGED <<files, cwd>>
       ELSE /\ files' = [files EXCEPT ![fname(p)] = cwd[tmpfile[p][1]]]
            /\ cwd' = [cwd EXCEPT ![tmpfile[p][1]] = "absent"]
            /\ Goto(p, "done")
    /\ UNCHANGED <<config, geo, zipfile, folder, year, area, tmpfile, calls, lookups,
                   start, probe>>

----------------------------------------------------------------------------
(* Specifications *)

Finished(p) == pc[p] \in {"done", "error"}

\* the invocations run one after the other: 1 to its end, then 2
InTurn(p) ==
    /\ \A q \in Procs : q < p => Finished(q)
    /\ \A q \in Procs : q > p => pc[q] = "idle"

\* the script is started when the invocation before it has ended
invoke_in_turn(p) == InTurn(p) /\ main_arguments(p)

\* successive invocations of the script with the same command line
Next ==
    \E p \in Procs :
        \/ invoke_in_turn(p)
        \/ main_for_year(p)
        \/ main_projection(p)
        \/ main_get_country(p)
        \/ get_data_from_copernicus_check(p)
        \/ get_data_from_copernicus_retrieve(p)
        \/ get_projections_from_copernicus_check(p)
        \/ get_projections_from_copernicus_retrieve(p, Archives)
        \/ get_projections_from_copernicus_unzip(p)
        \/ get_projections_from_copernicus_replace(p)

Spec == Init /\ [][Next]_vars

\* the archives delivered to concurrent invocations: no member, or one
SmallArchives == {a \in Archives : Len(a) <= 1}

\* two invocations of the script with the same command line, at any time
NextConcurrent ==
    \E p \in Procs :
        \/ main_arguments(p)
        \/ main_for_year(p)
        \/ main_projection(p)
        \/ main_get_country(p)
        \/ get_data_from_copernicus_check(p)
        \/ get_data_from_copernicus_retrieve(p)
        \/ get_projections_from_copernicus_check(p)
        \/ get_projections_from_copernicus_retrieve(p, SmallArchives)
        \/ get_projections_from_copernicus_unzip(p)
        \/ get_projections_from_copernicus_replace(p)

SpecConcurrent == Init /\ [][NextConcurrent]_vars

----------------------------------------------------------------------------
(* get_country called directly, on drawn tables *)

\* (west, south, east, north), each coordinate with two values
Rectangles == {<<-2, -1, 1, 2>>, <<0, 1, 3, 4>>, <<-2, 1, 1, 4>>, <<0, -1, 3, 2>>}
DrawnUnits == [name : {"A", "B"}, bbox : Rectangles]
DrawnTables == UNION {[1..n -> DrawnUnits] : n \in 0..MaxUnits}
Paddings == {None} \cup {Some(x) : x \in -1..MaxPadding}

InitBox ==
    /\ config \in [ country : {"full", "XX"},
                    subunit : {None, Some("A"), Some("C")},
                    dataset : {Some("single-levels")},
                    experiment : {None},
                    model : {"access_cm2"},
                    year1 : {2020},
                    year2 : {2020} ]
    /\ \E t \in DrawnTables : geo = ("XX" :> t)
    /\ files = [f \in CanonicalPaths(config) |-> "absent"]
    /\ zipfile = NoZip
    /\ cwd = [n \in MemberNames |-> "absent"]
    /\ folder = FALSE
    /\ probe = NoProbe
    /\ InitInvocations

\* get_country(code2, subunit, padding) with the padding given, and with padding 0
call_get_country(padding) ==
    /\ probe' = [called |-> TRUE, padding |-> padding,
                 result |-> get_country(config.country, config.subunit, padding),
                 unpadded |-> get_country(config.country, config.subunit, Some(0)),
                 result_v1 |-> get_country_v1(config.country, config.subunit, padding),
                 unpadded_v1 |-> get_country_v1(config.country, config.subunit, Some(0))]
    /\ UNCHANGED <<config, geo, files, zipfile, cwd, folder, pc, year, area, tmpfile, err,
                   calls, lookups, start>>

NextBox == \E padding \in Paddings : call_get_country(padding)

SpecBox == InitBox /\ [][NextBox]_vars

----------------------------------------------------------------------------
(* Notions the properties are stated with *)

\* every file the run is to produce exists in the file system fs
Populated(cfg, fs) == \A path \in Targets(cfg) : fs[path] # "absent"

CallTargets(p) == {calls[p][i].target : i \in 1..Len(calls[p])}

\* the years lo..hi without a file in fs, in ascending order
RECURSIVE MissingYears(_, _, _, _)
MissingYears(fs, dataset, lo, hi) ==
    IF lo > hi THEN <<>>
    ELSE (IF fs[era5_fname(dataset, lo)] = "absent" THEN <<lo>> ELSE <<>>)
         \o MissingYears(fs, dataset, lo + 1, hi)

IsPrefix(s, t) == Len(s) <= Len(t) /\ SubSeq(t, 1, Len(s)) = s

\* the run of invocation p takes the reanalysis branch
Reanalysis == config.experiment = None /\ config.dataset # None

EndsInNc(name) ==
    /\ Len(name) >= 3
    /\ name[Len(name) - 2] = "." /\ name[Len(name) - 1] = "n" /\ name[Len(name)] = "c"

\* the subunit named in the query matches no rectangle of the country
NoMatch ==
    /\ config.subunit # None
    /\ \A c \in DOMAIN geo : c = config.country =>
            \A i \in 1..Len(geo[c]) : geo[c][i].name # config.subunit[1]

----------------------------------------------------------------------------
(* C1 *)

\* C1: whenever the dataset and the experiment are both set, and whenever neither is
\* set, main fails with a configuration error before any retrieval call, any lookup of
\* the country and any change of the file system; a run goes on to the retrieval only
\* when exactly one of the two is set.
C1_ConfigErrorUnlessExactlyOne ==
    \A p \in Procs :
        (pc[p] # "idle" /\ (config.dataset = None) = (config.experiment = None))
            => /\ pc[p] = "error" /\ err[p] = "ValueError"
               /\ calls[p] = <<>> /\ lookups[p] = 0 /\ ~folder

----------------------------------------------------------------------------
(* C2 *)

\* C2: in the reanalysis branch the retrieval calls of a run are, in order, the years of
\* [year1, year2] whose file was absent when the run started, in ascending order and
\* one call per year, each downloaded to its canonical file; the run that ends without
\* failure has issued all of them; a file that existed is never retrieved and keeps its
\* content.
C2_RetrievesMissingYearsInOrder ==
    Reanalysis =>
        \A p \in Procs :
            LET want == MissingYears(start[p].files, config.dataset[1],
                                     config.year1, config.year2)
                got == [i \in 1..Len(calls[p]) |-> calls[p][i].years]
            IN  /\ IsPrefix(got, [i \in 1..Len(want) |-> <<want[i]>>])
                /\ pc[p] = "done" => Len(got) = Len(want)
                /\ \A i \in 1..Len(calls[p]) :
                        /\ calls[p][i].target = era5_fname(config.dataset[1], want[i])
                        /\ calls[p][i].dest = calls[p][i].target
                /\ \A path \in DOMAIN files :
                        start[p].files[path] # "absent" => files[path] = start[p].files[path]

\* a run over two years that skipped the first, which existed, and retrieved the second
C2_Witness ==
    /\ Reanalysis
    /\ config.year1 = 2020 /\ config.year2 = 2021
    /\ pc[1] = "done"
    /\ start[1].files[era5_fname(config.dataset[1], 2020)] = "old"
    /\ start[1].files[era5_fname(config.dataset[1], 2021)] = "absent"
    /\ Len(calls[1]) = 1 /\ calls[1][1].years = <<2021>>
    /\ files[era5_fname(config.dataset[1], 2020)] = "old"
    /\ files[era5_fname(config.dataset[1], 2021)] = "downloaded"

----------------------------------------------------------------------------
(* C3 *)

\* C3: an invocation that starts when every file its configuration is to produce exists
\* issues no retrieval call and leaves the canonical files, the archive and the working
\* directory as they were, in both branches.
C3_SecondRunDoesNothing ==
    \A p \in Procs :
        (pc[p] # "idle" /\ Populated(config, start[p].files))
            => /\ calls[p] = <<>>
               /\ files = start[p].files
               /\ zipfile = start[p].zipfile
               /\ cwd = start[p].cwd

\* the first invocation downloaded the projection, the second one found it and ended
C3_Witness ==
    /\ config.experiment # None
    /\ pc[1] = "done" /\ Len(calls[1]) = 1
    /\ pc[2] = "done" /\ calls[2] = <<>>
    /\ ~Populated(config, start[1].files)
    /\ Populated(config, start[2].files)
    /\ files = start[2].files

----------------------------------------------------------------------------
(* C4 *)

\* the rectangles that contribute to the box of the query
Contributing ==
    {b \in Rectangles :
        \E c \in DOMAIN geo : \E i \in 1..Len(geo[c]) :
            /\ c = config.country /\ geo[c][i].bbox = b
            /\ (config.subunit = None \/ geo[c][i].name = config.subunit[1])}

Least(S) == CHOOSE x \in S : \A y \in S : x <= y
Greatest(S) == CHOOSE x \in S : \A y \in S : x >= y

\* C4: for a country code (any query but "full"), the box get_country returns with
\* padding p is the box it returns with padding 0 moved outward by p: north + p,
\* west - p, south - p, east + p, in the order (north, west, south, east), where the box
\* with padding 0 is max(north), min(west), min(south), max(east) of the contributing
\* rectangles; without a contributing rectangle both calls raise.  The same holds of
\* get_country of the first revision, for every code.
C4_PaddingLaw ==
    (probe.called /\ probe.padding # None) =>
        LET p == probe.padding[1]
            N == Greatest({b[4] : b \in Contributing})
            W == Least({b[1] : b \in Contributing})
            S == Least({b[2] : b \in Contributing})
            E == Greatest({b[3] : b \in Contributing})
        IN  /\ probe.result_v1.raised = (Contributing = {})
            /\ probe.unpadded_v1.raised = (Contributing = {})
            /\ Contributing # {} =>
                    /\ probe.unpadded_v1.box = <<N, W, S, E>>
                    /\ probe.result_v1.box = <<N + p, W - p, S - p, E + p>>
            /\ config.country # "full" =>
                    /\ probe.result = probe.result_v1
                    /\ probe.unpadded = probe.unpadded_v1

\* two different rectangles of the named subunit, padded by 2
C4_Witness ==
    /\ probe.called /\ probe.padding = Some(2)
    /\ config.country = "XX" /\ config.subunit = Some("A")
    /\ Len(geo["XX"]) = 2
    /\ geo["XX"][1].name = "A" /\ geo["XX"][2].name = "A"
    /\ geo["XX"][1].bbox = <<-2, -1, 1, 2>> /\ geo["XX"][2].bbox = <<0, 1, 3, 4>>
    /\ probe.result.box = <<6, -4, -3, 5>>
    /\ probe.unpadded.box = <<4, -2, -1, 3>>

----------------------------------------------------------------------------
(* C5 *)

\* invocation p has downloaded an archive, get_projections_from_copernicus has
\* returned, and no later invocation has downloaded another archive
Normalized(p) ==
    /\ config.experiment # None
    /\ pc[p] = "done" /\ Len(calls[p]) = 1
    /\ \A q \in Procs : q > p => calls[q] = <<>>

FirstNc(members) ==
    Least({i \in 1..Len(members) : EndsInNc(members[i].name)})

\* C5 as stated: after the normalization of an archive with a member whose name ends
\* in .nc the canonical file has the content of the first such member in archive order;
\* without such a member the function returns without raising and there is no
\* canonical file.
C5_FirstMemberInArchiveOrder ==
    \A p \in Procs :
        /\ err[p] \notin {"BadZipFile", "FileNotFoundError"}
        /\ Normalized(p) =>
              LET m == zipfile.members
              IN  IF \E i \in 1..Len(m) : EndsInNc(m[i].name)
                  THEN files[calls[p][1].target] = m[FirstNc(m)].data
                  ELSE files[calls[p][1].target] = "absent"

\* C5 as amended: the canonical file has the content of the last member in archive
\* order that has the name of the first member whose name ends in .nc (that first
\* member itself when no later member repeats its name).
C5_MemberResolvedByName ==
    \A p \in Procs :
        /\ err[p] \notin {"BadZipFile", "FileNotFoundError"}
        /\ Normalized(p) =>
              LET m == zipfile.members
              IN  IF \E i \in 1..Len(m) : EndsInNc(m[i].name)
                  THEN LET same == {i \in 1..Len(m) : m[i].name = m[FirstNc(m)].name}
                       IN  files[calls[p][1].target] = m[Greatest(same)].data
                  ELSE files[calls[p][1].target] = "absent"

\* an archive with two members of the same name: the canonical file is the second
C5_Witness ==
    /\ Normalized(1)
    /\ zipfile.members = <<[name |-> NameNc1, data |-> "m1"], [name |-> NameNc1, data |-> "m2"]>>
    /\ files[calls[1][1].target] = "m2"

----------------------------------------------------------------------------
(* C6 *)

\* C6 as stated: when the subunit matches no rectangle of the country (a code of the
\* table), every run ends in an error without a retrieval call, whatever files exist.
C6_NoMatchAlwaysFatal ==
    (NoMatch /\ config.country \in DOMAIN geo) =>
        \A p \in Procs : Finished(p) => (pc[p] = "error" /\ calls[p] = <<>>)

\* C6 as amended: when the subunit matches no rectangle of the country and the code is
\* not "full", get_country raises; a run that finds a canonical file missing ends in
\* that error, at its first lookup and without a retrieval call; a run that finds every
\* canonical file present never calls get_country and ends without error.
C6_NoMatchFatalWhenFileMissing ==
    (NoMatch /\ config.country # "full") =>
        /\ get_country(config.country, config.subunit, Some(DefaultPadding)).raised
        /\ \A p \in Procs :
              /\ calls[p] = <<>>
              /\ (Finished(p) /\ ~arguments_missing(config)) =>
                    IF Populated(config, start[p].files)
                    THEN pc[p] = "done" /\ lookups[p] = 0
                    ELSE pc[p] = "error" /\ err[p] = "IndexError" /\ lookups[p] = 1

\* a run with a subunit that does not exist and a file to download
C6_Witness ==
    /\ NoMatch /\ config.country = "ES"
    /\ pc[1] = "error" /\ err[1] = "IndexError"
    /\ lookups[1] = 1 /\ calls[1] = <<>>

----------------------------------------------------------------------------
(* C7 *)

\* C7: no path is retrieved twice in one run; a failure of the client ends the run with
\* that failure, and the failed call, for the file the run was at, is the last call of
\* the run; the files the earlier calls of the run downloaded, and the files that
\* existed when the run started, are still there.
C7_FailurePropagatesWithoutRetry ==
    \A p \in Procs :
        /\ \A i, j \in 1..Len(calls[p]) : calls[p][i].target = calls[p][j].target => i = j
        /\ err[p] = "TransportFailure" =>
              /\ pc[p] = "error"
              /\ calls[p] # <<>>
              /\ calls[p][Len(calls[p])].target = fname(p)
        /\ Reanalysis =>
              \A i \in 1..Len(calls[p]) :
                  (i < Len(calls[p]) \/ pc[p] \in {"for_year", "done"})
                      => files[calls[p][i].target] = "downloaded"
        /\ \A path \in DOMAIN files :
              start[p].files[path] # "absent" => files[path] = start[p].files[path]

\* the first year was downloaded, the download of the second year failed
C7_Witness ==
    /\ Reanalysis
    /\ pc[1] = "error" /\ err[1] = "TransportFailure"
    /\ Len(calls[1]) = 2
    /\ calls[1][1].years = <<2020>> /\ calls[1][2].years = <<2021>>
    /\ files[calls[1][1].target] = "downloaded"
    /\ files[calls[1][2].target] = "absent"

----------------------------------------------------------------------------
(* C8 *)

\* C8 as stated: a run that has passed the check of the arguments has resolved the box
\* exactly once, before the branch and before any test of the cache.
C8_BoxResolvedOnceFirst ==
    \A p \in Procs : pc[p] \notin {"idle", "error"} => lookups[p] = 1

\* the box has been resolved for a download that has not been issued yet, or could not
\* be resolved
LookupPending(p) ==
    \/ pc[p] \in {"era5_gate", "era5_retrieve", "projection_gate", "projection_retrieve"}
    \/ err[p] = "IndexError"

\* C8 as amended: the box is resolved after a test of the cache has found a file
\* missing, once for each retrieval call and right before it; a run that finds every
\* file present resolves no box; every request of the run carries the box get_country
\* returns for the query.
C8_BoxResolvedPerRetrieval ==
    \A p \in Procs :
        /\ lookups[p] = Len(calls[p]) + (IF LookupPending(p) THEN 1 ELSE 0)
        /\ (pc[p] # "idle" /\ Populated(config, start[p].files)) => lookups[p] = 0
        /\ \A i \in 1..Len(calls[p]) :
              calls[p][i].area = get_country(config.country, config.subunit,
                                             Some(DefaultPadding)).box

\* a run that downloaded two years resolved the box twice
C8_Witness ==
    /\ Reanalysis
    /\ pc[1] = "done" /\ Len(calls[1]) = 2 /\ lookups[1] = 2
    /\ calls[1][1].area = calls[1][2].area

----------------------------------------------------------------------------
(* C9 *)

\* C9: in the projection branch the client downloads to the canonical path with the
\* suffix .zip, never to the canonical path, and when the run has ended without error
\* there is no file at the path of the archive.
C9_ArchiveRemoved ==
    config.experiment # None =>
        \A p \in Procs :
            /\ \A i \in 1..Len(calls[p]) :
                  /\ calls[p][i].dest = with_suffix(calls[p][i].target, "zip")
                  /\ calls[p][i].dest # calls[p][i].target
            /\ pc[p] = "done" => ~zipfile.present

----------------------------------------------------------------------------
(* C10, under SpecConcurrent *)

\* a test of the cache by invocation p: the step that leaves label at, to label fetch
\* exactly when there is no file
Gate(p, at, fetch) ==
    (pc[p] = at /\ (pc'[p] # at \/ year'[p] # year[p]))
        => ((pc'[p] = fetch) = (files[fname(p)] = "absent"))

\* every test of the cache skips exactly when the file exists at that moment, and the
\* file system changes only in the later steps that download or move a file
CheckThenWrite ==
    /\ \A p \in Procs :
          /\ Gate(p, "projection", "projection_area")
          /\ Gate(p, "projection_gate", "projection_retrieve")
          /\ Gate(p, "era5_gate", "era5_retrieve")
          /\ year[p] <= config.year2 => Gate(p, "for_year", "era5_area")
    /\ (files' # files \/ zipfile' # zipfile) =>
          \E p \in Procs :
              /\ pc[p] \in {"era5_retrieve", "projection_retrieve", "projection_replace"}
              /\ pc'[p] # pc[p]

\* C10 as stated, the part about invocations run one after the other: when the first
\* had ended without error before the second started, no path is retrieved by both.
C10_SequentialRetrievesOnce ==
    \A p, q \in Procs :
        (p \in start[q].after /\ pc[q] # "idle") => CallTargets(p) \cap CallTargets(q) = {}

\* C10 as amended: every test of the cache skips exactly when the file exists at the
\* time of the test, and the write is a later step; of two invocations run one after
\* the other, the first ending without error, the second retrieves a path the first
\* retrieved only when the first left no file there, which does not happen in the
\* reanalysis branch.
C10_CheckAndWriteAreSeparate ==
    /\ [][CheckThenWrite]_vars
    /\ [](\A p, q \in Procs :
            (p \in start[q].after /\ pc[q] # "idle") =>
                /\ Reanalysis => CallTargets(p) \cap CallTargets(q) = {}
                /\ \A path \in CallTargets(p) \cap CallTargets(q) :
                      start[q].files[path] = "absent")

\* two invocations at the same time have both retrieved the same year
C10_Witness ==
    /\ Reanalysis
    /\ start[1].after = {} /\ start[2].after = {}
    /\ pc[1] = "done" /\ pc[2] = "done"
    /\ CallTargets(1) \cap CallTargets(2) # {}

====
